---- MODULE Spec2Model ----
(***************************************************************************)
(* Model of mailtrap/smtp_server.py (src/server.py): the SMTP ingestion    *)
(* handler MailTrapHandler.handle_DATA, the record file emails.json, the   *)
(* attachments directory and the query/delete API built on top of them.    *)
(*                                                                         *)
(* Threads.  __main__ starts aiosmtpd's Controller, which runs the SMTP    *)
(* event loop in its own thread, and then uvicorn in the main thread.      *)
(* handle_DATA contains no await, so two ingestions never interleave with  *)
(* each other; the API handlers contain no await either, so two API calls  *)
(* never interleave with each other.  An ingestion and an API call do run  *)
(* in parallel and interleave at every access to the shared files.  The    *)
(* model therefore has one SMTP program counter and one API program        *)
(* counter, and one action per access to emails.json or to a blob.         *)
(*                                                                         *)
(* Environment.  Writes made by an ingestion can fail (an attachment       *)
(* open/write, the open of emails.json, json.dump), and a payload can fail *)
(* to decode.  A process restart happens between handler calls and is      *)
(* MailTrapHandler.__init__ run afresh on the SMTP side.  os.remove fails  *)
(* only for a blob that is missing.  json.dump of a small list reaches the *)
(* file in one write when the file is closed, so a completed dump replaces *)
(* the whole content; between open(..., 'w') and that write the file is    *)
(* empty, which json.load rejects.                                         *)
(***************************************************************************)
EXTENDS Integers, Sequences, FiniteSets, TLC

\* ------------------------------------------------------------------ bounds
\* Number of data submissions (handle_DATA calls) in a behaviour.
MaxIngest == 3
\* Number of different attachment filenames senders use.
MaxFiles == 1
\* Number of parts msg.walk() visits in a multipart message.
MaxParts == 1
\* The same number, for the specification of the SMTP handler alone.
MaxWalk == 2
\* Number of data submissions in the specification of the SMTP handler alone.
MaxSubmit == 2

\* Identifiers that can be assigned: len(self.emails) + 1 <= MaxIngest.
Ids == 1..MaxIngest
Filenames == 1..MaxFiles

\* ------------------------------------------------------------ data values
\* attachment_path: self.attachments_dir / f'{email_id}_{filename}'
attachment_path(email_id, filename) == <<email_id, filename>>

Paths == Ids \X Filenames

\* A blob of the attachments directory: the bytes of part `part` of the
\* transmission `tok`; full = FALSE for a file that open() created and whose
\* write did not complete.  NoBlob: no file under that path.
NoBlob == [tok |-> 0, part |-> 0, full |-> FALSE]

\* body_text / body_html values.  <<"plain", i>>: decoded payload of part i;
\* <<"html", i>>: decoded HTML payload of part i; <<"h2t", i>>: the result of
\* html2text on the HTML payload of part i.  None: Python's None.
None == <<"none", 0>>

\* Content types a part declares.
CT_HTML == "text/html"
CT_PLAIN == "text/plain"
CT_OTHER == "application/pdf"

\* A message part: disp is ('attachment' in str(part.get('Content-Disposition'))),
\* fn is part.get_filename() (0: no filename), ctype is part.get_content_type().
PartKinds ==
    [disp : {TRUE}, fn : Filenames, ctype : {CT_OTHER}]
    \cup [disp : {FALSE}, fn : {0}, ctype : {CT_PLAIN, CT_HTML, CT_OTHER}]
    \cup [disp : {TRUE}, fn : {0}, ctype : {CT_PLAIN}]

SeqsUpTo(S, n) == UNION {[1..k -> S] : k \in 0..n}

\* The transmissions a client submits.  A multipart message is the sequence
\* of parts msg.walk() visits after the multipart container itself (the
\* container has no disposition and a multipart/* type, so the loop body does
\* nothing for it).  A message that is not multipart is its own single part.
Msgs ==
    [multipart : {TRUE}, parts : SeqsUpTo(PartKinds, MaxParts)]
    \cup [multipart : {FALSE},
          parts : {<<p>> : p \in [disp : {FALSE}, fn : {0}, ctype : {CT_PLAIN, CT_HTML}]}]

\* The transmissions of the specification of the SMTP handler alone.
WalkMsgs ==
    [multipart : {TRUE}, parts : SeqsUpTo(PartKinds, MaxWalk)]
    \cup [multipart : {FALSE},
          parts : {<<p>> : p \in [disp : {FALSE}, fn : {0}, ctype : {CT_PLAIN, CT_HTML}]}]

NoMsg == [multipart |-> FALSE, parts |-> <<>>]

\* ------------------------------------------------------------------ state
VARIABLES
    emails_file,   \* emails.json: [st: "absent" | "empty" | "ok", data: records]
    blobs,         \* the attachments directory: path -> blob
    emails,        \* self.emails of the SMTP handler (MailTrap.handler)
    smtp,          \* the running handle_DATA call
    api,           \* the running API call
    ntok,          \* number of handle_DATA calls started so far
    committed,     \* history: records whose ingestion returned 250, in order
    deleted,       \* history: [tok, id] of the records whose DELETE reported success
    lastDel,       \* history: id of the last successful DELETE, 0 once the
                   \* record file has been written by anyone else since
    pure           \* history: no DELETE and no restart has happened yet

vars == <<emails_file, blobs, emails, smtp, api, ntok, committed, deleted,
          lastDel, pure>>

FileAbsent == [st |-> "absent", data |-> <<>>]
FileEmpty == [st |-> "empty", data |-> <<>>]
FileOf(list) == [st |-> "ok", data |-> list]

\* MailTrapHandler.__init__, lines 24-29: the list a new handler loads.
\* Defined only when json.load succeeds (the file is absent or holds a list).
Loadable(f) == f.st # "empty"
load_emails(f) == IF f.st = "ok" THEN f.data ELSE <<>>

SmtpIdle ==
    [pc |-> "idle", tok |-> 0, msg |-> NoMsg, email_id |-> 0, i |-> 0,
     attachments |-> <<>>, body_text |-> None, body_html |-> None,
     result |-> 0, error |-> "none", written |-> {}, emails0 |-> <<>>,
     file0 |-> FileAbsent, overlapped |-> FALSE]

ApiIdle ==
    [pc |-> "idle", op |-> "none", email_id |-> 0, emails |-> <<>>,
     found |-> <<>>, j |-> 0, result |-> 0, loaded |-> <<>>,
     blobs0 |-> [p \in Paths |-> NoBlob], overlapped |-> FALSE]

SmtpBusy == smtp.pc \notin {"idle", "ret"}
ApiBusy == api.pc \notin {"idle", "ret"}

Init ==
    /\ emails_file = FileAbsent
    /\ blobs = [p \in Paths |-> NoBlob]
    /\ emails = <<>>
    /\ smtp = SmtpIdle
    /\ api = ApiIdle
    /\ ntok = 0
    /\ committed = <<>>
    /\ deleted = {}
    /\ lastDel = 0
    /\ pure = TRUE

\* --------------------------------------------------- handle_DATA (42-121)
Last(list) == list[Len(list)]

\* An exception raised inside the try block: a storage write that failed
\* (OSError from open/write, an error of json.dump) or a payload that did not
\* decode.  The kind is kept for the claims; the code does not look at it.
raised(s, kind) == [s EXCEPT !.error = kind]

\* A handler that swallows the exception and still answers 250.
handle_DATA_except_accepts(s) == [s EXCEPT !.pc = "ret", !.result = 250]

\* except Exception (119-121): the handler answers 500.
handle_DATA_except(s) == [s EXCEPT !.pc = "ret", !.result = 500]

\* A loop that does not move on to the next part.
same_part(s) == s

\* The for loop of line 61 moving to its next part, or leaving the loop.
next_part(s) ==
    [s EXCEPT !.i = s.i + 1,
              !.pc = IF s.i >= Len(s.msg.parts) THEN "commit" ELSE "parts"]

\* Lines 44-58: the identifier is taken from the in-memory list, the message
\* is parsed (message_from_bytes does not raise on malformed input) and the
\* locals are initialised.
handle_DATA_begin(m) ==
    /\ smtp.pc = "idle"
    /\ ntok < MaxIngest
    /\ ntok' = ntok + 1
    /\ smtp' = [SmtpIdle EXCEPT
                  !.pc = IF Len(m.parts) = 0 THEN "commit" ELSE "parts",
                  !.tok = ntok + 1,
                  !.msg = m,
                  !.email_id = Len(emails) + 1,
                  !.i = 1,
                  !.emails0 = emails,
                  !.file0 = emails_file,
                  !.overlapped = ApiBusy]
    /\ api' = IF ApiBusy THEN [api EXCEPT !.overlapped = TRUE] ELSE api
    /\ UNCHANGED <<emails_file, blobs, emails, committed, deleted, lastDel, pure>>

\* Lines 66-79: a part whose disposition mentions attachment and that has a
\* filename.  open(attachment_path, 'wb') may fail (nothing is created), the
\* write may fail (the file exists, incomplete), or the blob is written and
\* the reference appended.
save_attachment(part) ==
    LET path == attachment_path(smtp.email_id, part.fn) IN
    \E outcome \in {"ok", "open_fails", "write_fails"} :
        CASE outcome = "ok" ->
               /\ blobs' = [blobs EXCEPT ![path] =
                              [tok |-> smtp.tok, part |-> smtp.i, full |-> TRUE]]
               /\ smtp' = next_part(
                     [smtp EXCEPT
                        !.attachments = Append(@, [filename |-> part.fn,
                                                   path |-> path,
                                                   content_type |-> part.ctype]),
                        !.written = @ \cup {path}])
          [] outcome = "open_fails" ->
               /\ blobs' = blobs
               /\ smtp' = handle_DATA_except(raised(smtp, "write"))
          [] outcome = "write_fails" ->
               /\ blobs' = [blobs EXCEPT ![path] =
                              [tok |-> smtp.tok, part |-> smtp.i, full |-> FALSE]]
               /\ smtp' = handle_DATA_except(
                             raised([smtp EXCEPT !.written = @ \cup {path}], "write"))

\* Lines 80-88: a part of a multipart message that is not an attachment.
\* get_payload(decode=True).decode() may raise.
body_part(part) ==
    \E decodes \in BOOLEAN :
        IF part.ctype = CT_HTML THEN
            IF decodes
            THEN smtp' = next_part(
                    [smtp EXCEPT
                       !.body_html = <<"html", smtp.i>>,
                       !.body_text = IF smtp.body_text = None
                                     THEN <<"h2t", smtp.i>> ELSE @])
            ELSE smtp' = handle_DATA_except(raised(smtp, "decode"))
        ELSE IF part.ctype = CT_PLAIN THEN
            IF decodes
            THEN smtp' = next_part([smtp EXCEPT !.body_text = <<"plain", smtp.i>>])
            ELSE smtp' = handle_DATA_except(raised(smtp, "decode"))
        ELSE
            smtp' = next_part(smtp)

\* Lines 89-97: a message that is not multipart.
single_part(part) ==
    \E decodes \in BOOLEAN :
        IF ~decodes THEN smtp' = handle_DATA_except(raised(smtp, "decode"))
        ELSE IF part.ctype = CT_HTML
        THEN smtp' = next_part([smtp EXCEPT !.body_html = <<"html", smtp.i>>,
                                            !.body_text = <<"h2t", smtp.i>>])
        ELSE smtp' = next_part([smtp EXCEPT !.body_text = <<"plain", smtp.i>>])

\* One iteration of the loop of line 61, or the else branch of line 89.
handle_DATA_part ==
    /\ smtp.pc = "parts"
    /\ LET part == smtp.msg.parts[smtp.i] IN
         IF smtp.msg.multipart THEN
            IF part.disp THEN
               IF part.fn # 0 THEN save_attachment(part)
               ELSE smtp' = next_part(smtp) /\ blobs' = blobs
            ELSE body_part(part) /\ blobs' = blobs
         ELSE single_part(part) /\ blobs' = blobs
    /\ UNCHANGED <<emails_file, emails, api, ntok, committed, deleted, lastDel, pure>>

\* Lines 100-110: the record built from the locals.  tok stands for the
\* fields copied from the transmission (from, to, subject, date, headers).
email_data(s) ==
    [id |-> s.email_id, tok |-> s.tok, content_text |-> s.body_text,
     content_html |-> s.body_html, attachments |-> s.attachments]

\* A handler that inserts the new record at the head of the list.
prepend_email(list, rec) == <<rec>> \o list

\* Line 113: the record is appended to the in-memory list.
append_email(list, rec) == Append(list, rec)

\* Lines 113-114: append, then open(self.emails_file, 'w'), which truncates
\* the file or raises.
handle_DATA_append ==
    /\ smtp.pc = "commit"
    /\ emails' = append_email(emails, email_data(smtp))
    /\ \E opens \in BOOLEAN :
         IF opens
         THEN /\ emails_file' = FileEmpty
              /\ smtp' = [smtp EXCEPT !.pc = "dump"]
              /\ lastDel' = 0
         ELSE /\ emails_file' = emails_file
              /\ smtp' = handle_DATA_except(raised(smtp, "write"))
              /\ lastDel' = lastDel
    /\ UNCHANGED <<blobs, api, ntok, committed, deleted, pure>>

\* Lines 115-117: json.dump(self.emails, f) writes the whole in-memory list
\* and the handler answers 250, or the dump raises and leaves an incomplete
\* document behind.
handle_DATA_dump ==
    /\ smtp.pc = "dump"
    /\ \E dumps \in BOOLEAN :
         IF dumps
         THEN /\ emails_file' = FileOf(emails)
              /\ smtp' = [smtp EXCEPT !.pc = "ret", !.result = 250]
              /\ committed' = Append(committed, Last(emails))
         ELSE /\ emails_file' = FileEmpty
              /\ smtp' = handle_DATA_except(raised(smtp, "write"))
              /\ committed' = committed
    /\ lastDel' = 0
    /\ UNCHANGED <<blobs, emails, api, ntok, deleted, pure>>

\* The response is handed to the transport; the handler is ready for the
\* next transmission.
handle_DATA_return ==
    /\ smtp.pc = "ret"
    /\ smtp' = SmtpIdle
    /\ UNCHANGED <<emails_file, blobs, emails, api, ntok, committed, deleted,
                   lastDel, pure>>

\* ------------------------------------------------------- the API (169-203)
\* next((e for e in handler.emails if e['id'] == email_id), None), as a
\* sequence holding the first match or nothing.
find_email(list, email_id) ==
    LET hits == {k \in 1..Len(list) : list[k].id = email_id} IN
    IF hits = {} THEN <<>>
    ELSE <<list[CHOOSE k \in hits : \A h \in hits : k <= h]>>

\* A filter with the comparison inverted: it keeps the record to delete.
only_email(list, email_id) == SelectSeq(list, LAMBDA e : e.id = email_id)

\* [e for e in handler.emails if e['id'] != email_id]
without_email(list, email_id) == SelectSeq(list, LAMBDA e : e.id # email_id)

\* Lines 169-172: GET /api/emails answered from the file content f.  The
\* handler only reads, so its answer is a function of the file at the moment
\* it runs; a file json.load rejects makes the constructor raise, which the
\* framework answers with 500.
get_emails(f) ==
    IF Loadable(f) THEN [status |-> 200, body |-> load_emails(f)]
    ELSE [status |-> 500, body |-> <<>>]

\* Lines 175-181: GET /api/emails/{email_id} answered from the file content f.
get_email(f, email_id) ==
    IF ~Loadable(f) THEN [status |-> 500, body |-> <<>>]
    ELSE LET email == find_email(load_emails(f), email_id) IN
         [status |-> IF email = <<>> THEN 404 ELSE 200, body |-> email]

\* Lines 186-189: DELETE /api/emails/{email_id} loads the file into a new
\* handler object and looks the record up.
delete_email_load(email_id) ==
    /\ api.pc = "idle"
    /\ LET base == [ApiIdle EXCEPT !.op = "delete", !.email_id = email_id,
                                   !.blobs0 = blobs] IN
       IF ~Loadable(emails_file)
       THEN /\ api' = [base EXCEPT !.pc = "ret", !.result = 500]
            /\ smtp' = smtp
       ELSE LET list == load_emails(emails_file)
                email == find_email(list, email_id) IN
            IF email = <<>>
            THEN /\ api' = [base EXCEPT !.pc = "ret", !.result = 404, !.emails = list,
                                        !.loaded = list]
                 /\ smtp' = smtp
            ELSE /\ api' = [base EXCEPT !.pc = "write", !.emails = list,
                                        !.loaded = list, !.found = email,
                                        !.overlapped = SmtpBusy]
                 /\ smtp' = IF SmtpBusy THEN [smtp EXCEPT !.overlapped = TRUE] ELSE smtp
    /\ pure' = FALSE
    /\ UNCHANGED <<emails_file, blobs, emails, ntok, committed, deleted, lastDel>>

\* Lines 192-194: the filtered list replaces the content of emails.json.
\* Nothing reads the file between this open and this dump except another
\* writer, whose own write replaces the content whole, so the two lines are
\* one step.
delete_email_write ==
    /\ api.pc = "write"
    /\ emails_file' = FileOf(without_email(api.emails, api.email_id))
    /\ api' = [api EXCEPT !.pc = "rm", !.j = 1,
                          !.emails = without_email(api.emails, api.email_id)]
    /\ UNCHANGED <<blobs, emails, smtp, ntok, committed, deleted, lastDel, pure>>

\* os.remove(path) inside try/except OSError: a missing blob is skipped.
os_remove(dir, path) == [dir EXCEPT ![path] = NoBlob]

\* Lines 197-201: one iteration of the loop over email['attachments'].
delete_email_remove ==
    /\ api.pc = "rm"
    /\ api.j <= Len(api.found[1].attachments)
    /\ blobs' = os_remove(blobs, api.found[1].attachments[api.j].path)
    /\ api' = [api EXCEPT !.j = api.j + 1]
    /\ UNCHANGED <<emails_file, emails, smtp, ntok, committed, deleted, lastDel, pure>>

\* Line 203: the deletion reports success.
delete_email_return ==
    /\ api.pc = "rm"
    /\ api.j > Len(api.found[1].attachments)
    /\ api' = [api EXCEPT !.pc = "ret", !.result = 200]
    /\ deleted' = deleted \cup
                    {[tok |-> api.loaded[k].tok, id |-> api.email_id] :
                        k \in {n \in 1..Len(api.loaded) : api.loaded[n].id = api.email_id}}
    /\ lastDel' = IF api.overlapped THEN 0 ELSE api.email_id
    /\ UNCHANGED <<emails_file, blobs, emails, smtp, ntok, committed, pure>>

\* The response has been sent.
api_return ==
    /\ api.pc = "ret"
    /\ api' = ApiIdle
    /\ UNCHANGED <<emails_file, blobs, emails, smtp, ntok, committed, deleted,
                   lastDel, pure>>

\* ------------------------------------------------------------- restart
\* The process is stopped between handler calls and started again:
\* MailTrap.__init__ (line 129) builds a new MailTrapHandler, which loads
\* emails.json (lines 24-29).  With a file json.load rejects the constructor
\* raises and the process does not come up.
restart ==
    /\ smtp.pc = "idle"
    /\ api.pc = "idle"
    /\ Loadable(emails_file)
    /\ emails' = load_emails(emails_file)
    /\ pure' = FALSE
    /\ UNCHANGED <<emails_file, blobs, smtp, api, ntok, committed, deleted, lastDel>>

Next ==
    \/ \E m \in Msgs : handle_DATA_begin(m)
    \/ handle_DATA_part
    \/ handle_DATA_append
    \/ handle_DATA_dump
    \/ handle_DATA_return
    \/ \E email_id \in Ids : delete_email_load(email_id)
    \/ delete_email_write
    \/ delete_email_remove
    \/ delete_email_return
    \/ api_return
    \/ restart

Spec == Init /\ [][Next]_vars

\* The SMTP handler alone: data submissions with messages of up to MaxWalk
\* parts, no API call and no restart.
NextParse ==
    \/ (ntok < MaxSubmit /\ \E m \in WalkMsgs : handle_DATA_begin(m))
    \/ handle_DATA_part
    \/ handle_DATA_append
    \/ handle_DATA_dump
    \/ handle_DATA_return

SpecParse == Init /\ [][NextParse]_vars

\* handle_DATA contains no await and no lock: once the event loop has
\* started it, each of its steps is taken as soon as it is enabled, whatever
\* the API thread does.
Fairness ==
    /\ WF_vars(handle_DATA_part)
    /\ WF_vars(handle_DATA_append)
    /\ WF_vars(handle_DATA_dump)
    /\ WF_vars(handle_DATA_return)

FairSpec == Spec /\ Fairness

FairSpecParse == SpecParse /\ Fairness

\* The shape of the state.
TypeOK ==
    /\ emails_file.st \in {"absent", "empty", "ok"}
    /\ smtp.pc \in {"idle", "parts", "commit", "dump", "ret"}
    /\ smtp.result \in {0, 250, 500}
    /\ api.pc \in {"idle", "write", "rm", "ret"}
    /\ api.result \in {0, 200, 404, 500}
    /\ ntok \in 0..MaxIngest
    /\ Len(emails) <= MaxIngest
    /\ \A k \in 1..Len(emails) : emails[k].id \in Ids

\* ------------------------------------------------------------- the claims
CommittedIdx == 1..Len(committed)
Attachments(rec) == {rec.attachments[k] : k \in 1..Len(rec.attachments)}
Records(list) == {list[k] : k \in 1..Len(list)}

\* C1: no two committed records carry the same id, and the id of a record
\* whose DELETE reported success is carried by no other committed record.
C1_IdsUniqueNeverReused ==
    /\ \A a, b \in CommittedIdx : a # b => committed[a].id # committed[b].id
    /\ \A d \in deleted : \A k \in CommittedIdx :
          committed[k].id = d.id => committed[k].tok = d.tok

\* C2: as long as only ingestions have run on the store that started empty
\* (no DELETE, no restart), the ids of the N ingestions that returned 250 are
\* exactly 1..N, each once.
C2_IdsAreOneToN ==
    pure => /\ {committed[k].id : k \in CommittedIdx} = CommittedIdx
            /\ \A a, b \in CommittedIdx : a # b => committed[a].id # committed[b].id

\* C3: when a DELETE of d that reported success and an ingestion of another
\* record r that returned 250 ran concurrently and have both completed, r is
\* in emails.json: GET list returns it and GET by id returns it.
C3_DeleteKeepsConcurrentAppend ==
    ( /\ smtp.pc = "ret" /\ smtp.result = 250
      /\ api.pc = "ret" /\ api.op = "delete" /\ api.result = 200
      /\ smtp.overlapped /\ api.overlapped
      /\ api.email_id # smtp.email_id )
    => /\ get_emails(emails_file).status = 200
       /\ email_data(smtp) \in Records(get_emails(emails_file).body)
       /\ get_email(emails_file, smtp.email_id).body = <<email_data(smtp)>>

\* C4: a record whose DELETE reported success is never returned again: GET
\* list omits it and GET by its id does not return it, in every later state.
C4_DeletedStaysDeleted ==
    \A d \in deleted :
        /\ \A rec \in Records(get_emails(emails_file).body) : rec.tok # d.tok
        /\ \A rec \in Records(get_email(emails_file, d.id).body) : rec.tok # d.tok

\* C5: in the state right after an ingestion returned 250 or a DELETE reported
\* success, emails.json holds exactly the records of the SMTP handler's
\* in-memory list.
C5_FileMatchesMemory ==
    [][ ( \/ (smtp.pc # "ret" /\ smtp'.pc = "ret" /\ smtp'.result = 250)
          \/ (api.pc # "ret" /\ api'.pc = "ret" /\ api'.op = "delete"
              /\ api'.result = 200) )
        => (emails_file'.st = "ok"
            /\ Records(emails_file'.data) = Records(emails')) ]_vars

\* C6: when handle_DATA ends in failure and no DELETE ran during the call,
\* the in-memory list and emails.json are what they were before the call.
C6_FailureLeavesStoreUnchanged ==
    [][ (smtp.pc # "ret" /\ smtp'.pc = "ret" /\ smtp'.result = 500
         /\ ~smtp'.overlapped)
        => (emails' = smtp.emails0 /\ emails_file' = smtp.file0) ]_vars

\* C7: once handle_DATA has returned its error code, no blob written during
\* that attempt is in the attachments directory.
C7_FailureLeavesNoOrphanBlob ==
    (smtp.pc = "ret" /\ smtp.result = 500)
    => \A p \in smtp.written : blobs[p] = NoBlob

\* C8: every attachment reference of every record GET list returns resolves to
\* an existing blob.
C8_ReferencesResolve ==
    \A rec \in Records(get_emails(emails_file).body) :
        \A att \in Attachments(rec) : blobs[att.path] # NoBlob

CommittedToks == {committed[k].tok : k \in CommittedIdx}

\* Two different committed emails whose attachments share a filename have
\* distinct storage keys.
KeysDistinct ==
    \A a, b \in CommittedIdx :
        committed[a].tok # committed[b].tok =>
            \A x \in Attachments(committed[a]) : \A y \in Attachments(committed[b]) :
                x.filename = y.filename => x.path # y.path

\* C9: two different committed emails with attachments of the same filename
\* have distinct storage keys, and no blob write replaces the blob of a
\* committed email by bytes of another transmission.
C9_NoCollision ==
    /\ []KeysDistinct
    /\ [][ \A p \in Paths :
              (blobs[p].tok \in CommittedToks /\ blobs'[p] # NoBlob)
              => blobs'[p].tok = blobs[p].tok ]_vars

\* C10: a DELETE of i that runs without a concurrent ingestion and reports
\* success leaves absent every blob that was present before the call and is
\* listed by a record with id i of the store it loaded; and a second DELETE of
\* i, issued with no write to emails.json in between, returns not-found.
C10_DeleteTwice ==
    [][ /\ ( (api.pc = "rm" /\ api'.pc = "ret" /\ ~api.overlapped)
             => /\ api'.result = 200
                /\ \A rec \in Records(api.loaded) :
                      rec.id = api.email_id =>
                         \A att \in Attachments(rec) :
                            api.blobs0[att.path] # NoBlob
                            => blobs'[att.path] = NoBlob )
        /\ ( (api.pc = "idle" /\ api'.op = "delete" /\ lastDel # 0
              /\ api'.email_id = lastDel)
             => api'.result = 404 ) ]_vars

\* C11: handle_DATA answers 250 exactly when its record has been appended to
\* the in-memory list and emails.json has been rewritten with it; otherwise it
\* answers a 5xx code; every exception ends in such an answer.
C11_AcceptedIffCommitted ==
    [][ (smtp.pc # "ret" /\ smtp'.pc = "ret")
        => /\ smtp'.result = 250 \/ smtp'.result \in 500..599
           /\ smtp'.result = 250
              <=> /\ emails' # <<>>
                  /\ Last(emails') = email_data(smtp')
                  /\ emails_file'.st = "ok"
                  /\ email_data(smtp') \in Records(emails_file'.data) ]_vars

\* An ingestion has answered 250 and its record is in emails.json.
C11_Witness ==
    /\ smtp.pc = "ret" /\ smtp.result = 250
    /\ email_data(smtp) \in Records(load_emails(emails_file))

\* C12: a storage write that fails during ingestion is answered with a
\* transient-failure code (4xx), a payload that does not decode with a
\* permanent-failure code (5xx), and the two codes differ.
C12_WriteFailureIsTransient ==
    smtp.pc = "ret" =>
        /\ smtp.error = "write" => smtp.result \in 400..499
        /\ smtp.error = "decode" => smtp.result \in 500..599

\* No record of the file content f carries the identifier.
NoRecordCarries(f, email_id) == \A rec \in Records(f.data) : rec.id # email_id

\* C13: for an identifier that no record in emails.json carries, GET by id
\* answers 404 and DELETE by id answers 404, neither answers with a server
\* fault, and the DELETE leaves emails.json and every blob unchanged.
C13_UnknownIdIsNotFound ==
    /\ [](\A email_id \in Ids :
             NoRecordCarries(emails_file, email_id)
             => get_email(emails_file, email_id).status = 404)
    /\ [][ (api.pc = "idle" /\ api'.op = "delete"
            /\ NoRecordCarries(emails_file, api'.email_id))
           => (api'.result = 404 /\ emails_file' = emails_file /\ blobs' = blobs) ]_vars

\* Position of a record in the history of accepted ingestions, 0 if absent.
CommittedPos(rec) ==
    IF \E k \in CommittedIdx : committed[k] = rec
    THEN CHOOSE k \in CommittedIdx : committed[k] = rec
    ELSE 0

\* C14: GET list returns the records of emails.json in insertion order: two
\* records it returns whose ingestions were accepted appear in the order in
\* which those ingestions completed, the most recent last; and no record
\* appears twice.
C14_ListInInsertionOrder ==
    LET body == get_emails(emails_file).body IN
    \A a, b \in 1..Len(body) :
        a < b =>
            /\ body[a].tok < body[b].tok
            /\ (CommittedPos(body[a]) # 0 /\ CommittedPos(body[b]) # 0)
               => CommittedPos(body[a]) < CommittedPos(body[b])

\* GET list returns two records that survived a successful DELETE.
C14_Witness ==
    /\ deleted # {}
    /\ Len(get_emails(emails_file).body) >= 2
    /\ \A rec \in Records(get_emails(emails_file).body) : CommittedPos(rec) # 0

\* A step of handle_DATA that handled the current part of a multipart message
\* without raising.
PartHandled ==
    /\ smtp.pc = "parts" /\ smtp.msg.multipart
    /\ smtp'.pc # "ret" /\ smtp'.i = smtp.i + 1

CurrentPart == smtp.msg.parts[smtp.i]

\* C15: in a multipart message a text/plain body part sets content_text only
\* if it is still unset, and a text/html body part sets content_html and
\* derives content_text from the HTML only if content_text is still unset.
C15_FirstTextWins ==
    [][ (PartHandled /\ ~CurrentPart.disp)
        => /\ CurrentPart.ctype = CT_PLAIN
              => smtp'.body_text = IF smtp.body_text = None
                                   THEN <<"plain", smtp.i>> ELSE smtp.body_text
           /\ CurrentPart.ctype = CT_HTML
              => /\ smtp'.body_html = <<"html", smtp.i>>
                 /\ smtp'.body_text = IF smtp.body_text = None
                                      THEN <<"h2t", smtp.i>> ELSE smtp.body_text ]_vars

\* C16: a part of a multipart message is handled as an attachment exactly
\* when its disposition indicates attachment and it has a filename; any other
\* text/plain or text/html part populates content_text / content_html, also
\* when its disposition indicates attachment; a part of another type that is
\* no attachment changes nothing and raises nothing.
C16_AttachmentOrBody ==
    [][ /\ PartHandled
           => /\ (smtp'.attachments # smtp.attachments)
                 <=> (CurrentPart.disp /\ CurrentPart.fn # 0)
              /\ (~(CurrentPart.disp /\ CurrentPart.fn # 0)
                  /\ CurrentPart.ctype = CT_PLAIN) => smtp'.body_text # None
              /\ (~(CurrentPart.disp /\ CurrentPart.fn # 0)
                  /\ CurrentPart.ctype = CT_HTML) => smtp'.body_html # None
              /\ (~(CurrentPart.disp /\ CurrentPart.fn # 0)
                  /\ CurrentPart.ctype = CT_OTHER)
                 => /\ smtp'.body_text = smtp.body_text
                    /\ smtp'.body_html = smtp.body_html
        /\ (smtp.pc = "parts" /\ smtp.msg.multipart /\ smtp' # smtp
            /\ ~(CurrentPart.disp /\ CurrentPart.fn # 0)
            /\ CurrentPart.ctype = CT_OTHER)
           => smtp'.pc # "ret" ]_vars

\* The parts of a message that are handled as attachments, and the part the
\* k-th attachment reference comes from.
IsAttachmentPart(msg, n) == msg.parts[n].disp /\ msg.parts[n].fn # 0
AttachmentPart(msg, k) ==
    CHOOSE n \in 1..Len(msg.parts) :
        /\ IsAttachmentPart(msg, n)
        /\ Cardinality({j \in 1..n : IsAttachmentPart(msg, j)}) = k

\* C17: when an accepted message has two attachment parts with the same
\* filename, the two references have distinct storage keys, and each key
\* resolves to the bytes of its own part.
C17_SameNameSameMessage ==
    (smtp.pc = "ret" /\ smtp.result = 250 /\ ~smtp.overlapped)
    => \A a, b \in 1..Len(smtp.attachments) :
          (a # b /\ smtp.attachments[a].filename = smtp.attachments[b].filename)
          => /\ smtp.attachments[a].path # smtp.attachments[b].path
             /\ blobs[smtp.attachments[a].path] =
                  [tok |-> smtp.tok, part |-> AttachmentPart(smtp.msg, a), full |-> TRUE]

\* The handler is in Processing: a data submission is being handled.
Processing == smtp.pc \in {"parts", "commit", "dump"}

\* C18: every data submission that puts the handler into Processing leads to
\* a transport response, 250 or a failure code, after which the handler is
\* Idle again; the response is the only one (what follows it is Idle, and the
\* response is not changed).
C18_EverySubmissionIsAnswered ==
    /\ Processing ~> (smtp.pc = "ret" /\ smtp.result \in {250, 500})
    /\ (smtp.pc = "ret") ~> (smtp.pc = "idle")
    /\ [][ (smtp.pc = "ret" /\ smtp' # smtp) => smtp'.pc = "idle" ]_vars
    /\ [][ (smtp'.pc = "ret" /\ smtp.pc # "ret") => Processing ]_vars

\* The handler is Idle again after a failed submission and an accepted one.
C18_Witness ==
    /\ smtp.pc = "idle"
    /\ ntok >= 2
    /\ Len(committed) = 1

\* The blobs listed by the records with the identifier in the list.
ListedPaths(list, email_id) ==
    UNION {{att.path : att \in Attachments(rec)} :
              rec \in {r \in Records(list) : r.id = email_id}}

\* C19: a DELETE of i that reports success and ran without a concurrent
\* ingestion leaves in emails.json exactly the records it loaded whose id is
\* not i, in the same order and unchanged; the only blobs it changes are
\* blobs listed by the deleted record, which it removes; and it reports
\* success whether or not the listed blobs existed.
C19_DeleteFrame ==
    [][ (api.pc = "rm" /\ api'.pc = "ret" /\ ~api.overlapped)
        => /\ api'.result = 200
           /\ emails_file'.st = "ok"
           /\ emails_file'.data = SelectSeq(api.loaded, LAMBDA e : e.id # api.email_id)
           /\ \A p \in Paths :
                 blobs'[p] # api.blobs0[p]
                 => (blobs'[p] = NoBlob /\ p \in ListedPaths(api.loaded, api.email_id)) ]_vars

\* A DELETE has reported success although a blob listed by the deleted record
\* was already missing, and another record is still in emails.json.
C19_Witness ==
    /\ api.pc = "ret" /\ api.op = "delete" /\ api.result = 200 /\ ~api.overlapped
    /\ smtp.pc = "idle"
    /\ \E att \in Attachments(api.found[1]) : api.blobs0[att.path] = NoBlob
    /\ Len(load_emails(emails_file)) >= 1

====
